---- MODULE Spec2Model ----
(***************************************************************************)
(* A model of the statistics engine of DataExplorerPro                     *)
(* (utils/statistics: calculatePearson, calculatePValue, getPFromT,        *)
(* calculateGroupStats, calculateSummaryStats, getCorrelationMatrix), of   *)
(* the upload component's processRawData and of the App component's state  *)
(* and handlers.                                                           *)
(*                                                                         *)
(* JavaScript numbers are modelled as exact rationals n/d together with    *)
(* the IEEE-754 special values NaN, +Infinity and -Infinity, whose         *)
(* arithmetic follows IEEE-754 (Infinity - Infinity = NaN, 0/0 = NaN,      *)
(* x/0 = +-Infinity, 0 * Infinity = NaN, every comparison with NaN false). *)
(* Rounding of finite results and the sign of zero are not modelled.       *)
(* Math.sqrt is kept exact by carrying results as a signed square root of  *)
(* a rational ("surd"): sg * sqrt(sq).                                     *)
(***************************************************************************)
EXTENDS Integers, Sequences, FiniteSets, TLC

VARIABLES
  pc,        \* "input" before the engine call of the behaviour, "done" after it
  data,      \* getCorrelationMatrix: the row list (each row: name -> cell)
  vars,      \* getCorrelationMatrix: the list of variable names
  results,   \* getCorrelationMatrix: the returned CorrelationResult[]
  groups,    \* calculateGroupStats: the mapping, as its entries in key order
  report,    \* calculateGroupStats: the returned report, or NoReport (null)
  values,    \* calculateSummaryStats: the values array
  type,      \* calculateSummaryStats: the declared VariableType
  stats,     \* calculateSummaryStats: the returned record
  ps,        \* getSignificanceStars: the p-values it is applied to
  stars,     \* getSignificanceStars: the returned strings, in the order of ps
  rawRows,   \* processRawData: the parsed rows of the file
  dataset,   \* processRawData: the Dataset handed to onDataLoaded, or null
  activeTab,         \* App: the tab shown
  loading,           \* App: the loading flag
  selectedVarNames,  \* App: the names selected for analysis
  matrixScale,       \* App: the zoom factor of the correlation matrix
  xVar,              \* App: the predictor of the focused analysis, or ""
  yVar,              \* App: the outcome of the focused analysis, or ""
  xAsCategorical,    \* App: the predictor is treated as a grouping factor
  timers,            \* App: the pending callbacks of handleDataLoaded's timer
  tabSelected,       \* history: the user chose a tab since the last load
  forced             \* history: forceNumericalAll calls since the last load

uiVars == <<activeTab, loading, selectedVarNames, matrixScale, xVar, yVar,
           xAsCategorical, timers, tabSelected, forced>>

allVars == <<pc, data, vars, results, groups, report, values, type, stats,
            ps, stars, rawRows, dataset, uiVars>>

(***************************************************************************)
(* Bounds of the model.                                                    *)
(***************************************************************************)
MaxRows == 3
MaxObs == 3
MaxGroups == 3
MaxValues == 3

(***************************************************************************)
(* JavaScript numbers.                                                     *)
(***************************************************************************)
Abs(i) == IF i < 0 THEN -i ELSE i
Sgn(i) == IF i < 0 THEN -1 ELSE IF i > 0 THEN 1 ELSE 0

RECURSIVE Gcd(_, _)
Gcd(a, b) == IF b = 0 THEN a ELSE Gcd(b, a % b)

\* The finite number n/d (d # 0), in lowest terms with a positive denominator.
Rat(n, d) ==
  LET g == Gcd(Abs(n), Abs(d))
  IN  [n |-> (Sgn(d) * n) \div g, d |-> Abs(d) \div g]

Num(i) == [n |-> i, d |-> 1]
NaN == [n |-> 0, d |-> 0]
Infinity == [n |-> 1, d |-> 0]
NegInfinity == [n |-> -1, d |-> 0]

isNaN(a) == a.d = 0 /\ a.n = 0
IsInf(a) == a.d = 0 /\ a.n # 0
isFinite(a) == a.d > 0

\* a + b
NumAdd(a, b) ==
  IF isNaN(a) \/ isNaN(b) THEN NaN
  ELSE IF IsInf(a) THEN (IF IsInf(b) /\ b.n # a.n THEN NaN ELSE a)
  ELSE IF IsInf(b) THEN b
  ELSE IF a.d = 1 /\ b.d = 1 THEN Num(a.n + b.n)
  ELSE Rat(a.n * b.d + b.n * a.d, a.d * b.d)

NumNeg(a) == [n |-> -a.n, d |-> a.d]

\* a - b
NumSub(a, b) == NumAdd(a, NumNeg(b))

\* a * b
NumMul(a, b) ==
  IF isNaN(a) \/ isNaN(b) THEN NaN
  ELSE IF IsInf(a) \/ IsInf(b)
       THEN (IF a.n = 0 \/ b.n = 0 THEN NaN
             ELSE [n |-> Sgn(a.n) * Sgn(b.n), d |-> 0])
  ELSE IF a.d = 1 /\ b.d = 1 THEN Num(a.n * b.n)
  ELSE Rat(a.n * b.n, a.d * b.d)

\* a / b
NumDiv(a, b) ==
  IF isNaN(a) \/ isNaN(b) THEN NaN
  ELSE IF IsInf(b) THEN (IF IsInf(a) THEN NaN ELSE Num(0))
  ELSE IF b.n = 0 THEN (IF a.n = 0 THEN NaN ELSE [n |-> Sgn(a.n), d |-> 0])
  ELSE IF IsInf(a) THEN [n |-> Sgn(a.n) * Sgn(b.n), d |-> 0]
  ELSE Rat(a.n * b.d, a.d * b.n)

\* a < b, a === b, a <= b: false whenever an operand is NaN
NumLt(a, b) ==
  /\ ~isNaN(a)
  /\ ~isNaN(b)
  /\ IF IsInf(a) \/ IsInf(b)
     THEN a # b /\ (a = NegInfinity \/ b = Infinity)
     ELSE a.n * b.d < b.n * a.d

NumEq(a, b) == ~isNaN(a) /\ ~isNaN(b) /\ a = b
NumLe(a, b) == NumLt(a, b) \/ NumEq(a, b)

\* xs.reduce((a, b) => a + b, 0)
RECURSIVE SumTo(_, _)
SumTo(xs, k) == IF k = 0 THEN Num(0) ELSE NumAdd(SumTo(xs, k - 1), xs[k])
Sum(xs) == SumTo(xs, Len(xs))

(***************************************************************************)
(* Surds: the value sg * sqrt(sq) with sg in {-1, 0, 1} and sq a number    *)
(* >= 0, +Infinity, or NaN (then the value is NaN).  Products and          *)
(* quotients of surds are surds, so every value the engine derives from a  *)
(* Math.sqrt is exact.                                                     *)
(***************************************************************************)
Surd(sg, sq) ==
  IF isNaN(sq) THEN [sg |-> 0, sq |-> NaN]
  ELSE IF sq.n = 0 THEN [sg |-> 0, sq |-> Num(0)]
  ELSE [sg |-> sg, sq |-> sq]

SurdNaN == Surd(0, NaN)
SurdOf(a) == Surd(Sgn(a.n), NumMul(a, a))
SurdIsNaN(s) == isNaN(s.sq)

\* Math.sqrt(a): NaN for NaN and for a < 0
Sqrt(a) == IF isNaN(a) \/ a.n < 0 THEN SurdNaN ELSE Surd(1, a)

SurdMul(s, t) == Surd(s.sg * t.sg, NumMul(s.sq, t.sq))
SurdDiv(s, t) == Surd(s.sg * (IF t.sg = 0 THEN 1 ELSE t.sg), NumDiv(s.sq, t.sq))
SurdAbs(s) == Surd(Abs(s.sg), s.sq)
\* s * s
SurdSquare(s) == s.sq
\* s === 0
SurdIsZero(s) == s.sq = Num(0)

(***************************************************************************)
(* Raw cell values (the `any` of a row or of a values array): null,        *)
(* undefined (also what reading a key the row lacks yields), a string (the *)
(* sequence of its characters), a number, or a boolean.                    *)
(***************************************************************************)
Null == [t |-> "null", s |-> <<>>, v |-> Num(0)]
Undefined == [t |-> "undefined", s |-> <<>>, v |-> Num(0)]
Str(chars) == [t |-> "string", s |-> chars, v |-> Num(0)]
NumCell(a) == [t |-> "number", s |-> <<>>, v |-> a]
Bool(b) == [t |-> "boolean", s |-> <<>>, v |-> Num(IF b THEN 1 ELSE 0)]

Whitespace == {" "}
Digits == <<"0", "1", "2", "3", "4", "5", "6", "7", "8", "9">>
IsDigit(c) == \E i \in 1..10 : Digits[i] = c
DigitVal(c) == (CHOOSE i \in 1..10 : Digits[i] = c) - 1

\* String.prototype.trim
RECURSIVE trim(_)
trim(s) ==
  IF s = <<>> THEN s
  ELSE IF s[1] \in Whitespace THEN trim(Tail(s))
  ELSE IF s[Len(s)] \in Whitespace THEN trim(SubSeq(s, 1, Len(s) - 1))
  ELSE s

RECURSIVE DigitsValue(_)
DigitsValue(s) ==
  IF s = <<>> THEN 0
  ELSE 10 * DigitsValue(SubSeq(s, 1, Len(s) - 1)) + DigitVal(s[Len(s)])

InfinityText == <<"I", "n", "f", "i", "n", "i", "t", "y">>

\* Number(text): the StringToNumber conversion over the characters the model
\* draws strings from (blanks, letters, decimal digits): a blank or empty
\* string is 0, a digit string its value, the text of an infinity that
\* infinity, anything else NaN.
StringToNumber(s) ==
  LET t == trim(s)
  IN  IF t = <<>> THEN Num(0)
      ELSE IF \A i \in 1..Len(t) : IsDigit(t[i]) THEN Num(DigitsValue(t))
      ELSE IF t = InfinityText \/ t = <<"+">> \o InfinityText THEN Infinity
      ELSE IF t = <<"-">> \o InfinityText THEN NegInfinity
      ELSE NaN

\* Number(v)
Number(c) ==
  CASE c.t = "null" -> Num(0)
    [] c.t = "undefined" -> NaN
    [] c.t = "string" -> StringToNumber(c.s)
    [] OTHER -> c.v

(***************************************************************************)
(* calculatePearson                                                        *)
(***************************************************************************)
calculatePearson(x, y) ==
  LET n == Len(x)
  IN  IF n # Len(y) \/ n = 0 THEN SurdOf(Num(0))
      ELSE
        LET sumX == Sum(x)
            sumY == Sum(y)
            sumXY == Sum([i \in 1..n |-> NumMul(x[i], y[i])])
            sumX2 == Sum([i \in 1..n |-> NumMul(x[i], x[i])])
            sumY2 == Sum([i \in 1..n |-> NumMul(y[i], y[i])])
            numerator == NumSub(NumMul(Num(n), sumXY), NumMul(sumX, sumY))
            denominator ==
              Sqrt(NumMul(NumSub(NumMul(Num(n), sumX2), NumMul(sumX, sumX)),
                          NumSub(NumMul(Num(n), sumY2), NumMul(sumY, sumY))))
        IN  IF SurdIsZero(denominator) THEN SurdOf(Num(0))
            ELSE SurdDiv(SurdOf(numerator), denominator)

(***************************************************************************)
(* getPFromT.  The transcendental part (Math.exp, the polynomial in k) is  *)
(* evaluated in fixed point with PScale units per 1; a finite result is    *)
(* the p-value rounded to that resolution.  The branches (df <= 0, NaN,    *)
(* the df < 30 correction, the clamp) are the code's.                      *)
(***************************************************************************)
PScale == 10 ^ 4
FxMul(a, b) == (a * b) \div PScale

RECURSIVE ISqrtIter(_, _)
ISqrtIter(n, x) ==
  LET y == (x + n \div x) \div 2
  IN  IF y >= x THEN x ELSE ISqrtIter(n, y)
\* floor(sqrt(n)) for 0 <= n < 2^31
ISqrt(n) == IF n = 0 THEN 0 ELSE ISqrtIter(n, IF n > 46340 THEN 46340 ELSE n)

RECURSIVE FxPow(_, _)
FxPow(b, i) == IF i = 0 THEN PScale ELSE FxMul(b, FxPow(b, i - 1))

\* Math.exp(-x) for a fixed-point x >= 0: e^-1 to the integer part, times
\* the Taylor polynomial (degree 7, in Horner form) of the fractional part.
FxExpNeg(x) ==
  LET f == x % PScale
      h7 == PScale - f \div 7
      h6 == PScale - FxMul(f, h7) \div 6
      h5 == PScale - FxMul(f, h6) \div 5
      h4 == PScale - FxMul(f, h5) \div 4
      h3 == PScale - FxMul(f, h4) \div 3
      h2 == PScale - FxMul(f, h3) \div 2
      h1 == PScale - FxMul(f, h2)
  IN  FxMul(FxPow(3679, x \div PScale), h1)

\* The fixed-point two-sided tail for a finite t with t * t = q < 21 and df > 0.
FxPFromT(q, df) ==
  LET qf == (q.n * PScale) \div q.d
      t_abs == ISqrt(qf * PScale)
      k == (PScale * PScale) \div (PScale + FxMul(2316, t_abs))
      a1 == 3194
      a2 == -3566
      a3 == 17815
      a4 == -18213
      a5 == 13303
      poly == FxMul(FxMul(FxMul(FxMul(FxMul(a5, k) + a4, k) + a3, k) + a2, k) + a1, k)
      normalCDF == PScale - FxMul(FxMul(3989, FxExpNeg(qf \div 2)), poly)
      p0 == 2 * (PScale - normalCDF)
      p1 == IF df < 30
            THEN FxMul(p0, PScale + (FxMul(p0, p0) + PScale) \div (4 * df))
            ELSE p0
  IN  IF p1 < 0 THEN 0 ELSE IF p1 > PScale THEN PScale ELSE p1

\* A slip getPFromT could contain: the df <= 0 guard missing, so that a NaN
\* statistic propagates into p.
getPFromT_NoDfGuard(t, df) ==
  IF SurdIsNaN(t) THEN NaN
  ELSE IF df <= 0 THEN Num(1)
  ELSE IF IsInf(t.sq) \/ NumLe(Num(21), t.sq) THEN Num(0)
  ELSE Rat(FxPFromT(t.sq, df), PScale)

\* t is a surd, df an integer.  For |t| = Infinity the code computes k = 0,
\* Math.exp(-Infinity) = 0 and so p = 0; for t * t >= 21 the tail is below
\* 1/PScale and is 0 at the model's resolution.
getPFromT(t, df) ==
  IF df <= 0 THEN Num(1)
  ELSE IF SurdIsNaN(t) THEN NaN
  ELSE IF IsInf(t.sq) \/ NumLe(Num(21), t.sq) THEN Num(0)
  ELSE Rat(FxPFromT(t.sq, df), PScale)

(***************************************************************************)
(* calculatePValue                                                         *)
(***************************************************************************)
calculatePValue(r, n) ==
  IF n <= 2 THEN Num(1)
  ELSE
    LET t == SurdMul(SurdAbs(r),
                     Sqrt(NumDiv(Num(n - 2), NumSub(Num(1), SurdSquare(r)))))
    IN  getPFromT(t, n - 2)

(***************************************************************************)
(* getSignificanceStars                                                    *)
(***************************************************************************)
\* A slip the thresholds could contain: <= for <.
getSignificanceStars_Inclusive(p) ==
  IF NumLe(p, Rat(1, 1000)) THEN "***"
  ELSE IF NumLe(p, Rat(1, 100)) THEN "**"
  ELSE IF NumLe(p, Rat(5, 100)) THEN "*"
  ELSE ""

getSignificanceStars(p) ==
  IF NumLt(p, Rat(1, 1000)) THEN "***"
  ELSE IF NumLt(p, Rat(1, 100)) THEN "**"
  ELSE IF NumLt(p, Rat(5, 100)) THEN "*"
  ELSE ""

(***************************************************************************)
(* getCorrelationMatrix: one record per (i, j), row-major.                 *)
(***************************************************************************)
\* A slip the pair filter could contain: only the x side is tested.
CorrelationPairs_OnlyX(rows, xName, yName) ==
  SelectSeq([k \in 1..Len(rows) |->
               [x |-> Number(rows[k][xName]), y |-> Number(rows[k][yName])]],
            LAMBDA p : ~isNaN(p.x))

CorrelationPairs(rows, xName, yName) ==
  SelectSeq([k \in 1..Len(rows) |->
               [x |-> Number(rows[k][xName]), y |-> Number(rows[k][yName])]],
            LAMBDA p : ~isNaN(p.x) /\ ~isNaN(p.y))

CorrelationRecord(rows, xName, yName) ==
  LET pairs == CorrelationPairs(rows, xName, yName)
      xVals == [k \in 1..Len(pairs) |-> pairs[k].x]
      yVals == [k \in 1..Len(pairs) |-> pairs[k].y]
      r == calculatePearson(xVals, yVals)
      p == calculatePValue(r, Len(pairs))
  IN  [x |-> xName, y |-> yName, r |-> r, p |-> p, n |-> Len(pairs),
       significance |-> getSignificanceStars(p)]

\* A slip the loops could contain: the inner loop starting at j = i, which
\* materializes one direction of every pair only.
getCorrelationMatrix_UpperTriangle(rows, vs) ==
  LET L == Len(vs)
      ij == SelectSeq([idx \in 1..(L * L) |->
                         <<((idx - 1) \div L) + 1, ((idx - 1) % L) + 1>>],
                      LAMBDA q : q[1] <= q[2])
  IN  [m \in 1..Len(ij) |-> CorrelationRecord(rows, vs[ij[m][1]], vs[ij[m][2]])]

getCorrelationMatrix(rows, vs) ==
  LET L == Len(vs)
  IN  [idx \in 1..(L * L) |->
         CorrelationRecord(rows, vs[((idx - 1) \div L) + 1], vs[((idx - 1) % L) + 1])]

(***************************************************************************)
(* calculateGroupStats.  The mapping is the sequence of its entries        *)
(* [name, vals] in Object.keys order.                                      *)
(***************************************************************************)
NumAbs(a) == [n |-> Abs(a.n), d |-> a.d]
NumSq(a) == NumMul(a, a)

RECURSIVE Concat(_)
Concat(ss) == IF ss = <<>> THEN <<>> ELSE Concat(SubSeq(ss, 1, Len(ss) - 1)) \o ss[Len(ss)]

\* A slip the loops could contain: the inner loop starting at j = i, which
\* also pairs every group after the first with itself.
RECURSIVE PairList_FromSelf(_, _, _)
PairList_FromSelf(i, j, k) ==
  IF i > k THEN <<>>
  ELSE IF j > k THEN PairList_FromSelf(i + 1, i + 1, k)
  ELSE <<<<i, j>>>> \o PairList_FromSelf(i, j + 1, k)

\* the (i, j) with i < j <= k, in the order of the two nested loops
RECURSIVE PairList(_, _, _)
PairList(i, j, k) ==
  IF i > k THEN <<>>
  ELSE IF j > k THEN PairList(i + 1, i + 2, k)
  ELSE <<<<i, j>>>> \o PairList(i, j + 1, k)

GroupDatum(g) ==
  LET vals == g.vals
      len == Len(vals)
      mean == NumDiv(Sum(vals), Num(len))
      ssq == Sum([i \in 1..len |-> NumSq(NumSub(vals[i], mean))])
      variance == NumDiv(ssq, Num(IF len - 1 # 0 THEN len - 1 ELSE 1))
  IN  [name |-> g.name, n |-> len, mean |-> mean, ssq |-> ssq, variance |-> variance]

PairwiseComparison(g1, g2) ==
  LET pooledVar == NumDiv(NumAdd(NumMul(Num(g1.n - 1), g1.variance),
                                 NumMul(Num(g2.n - 1), g2.variance)),
                          Num(g1.n + g2.n - 2))
      t == SurdDiv(SurdOf(NumAbs(NumSub(g1.mean, g2.mean))),
                   Sqrt(NumMul(pooledVar,
                               NumAdd(NumDiv(Num(1), Num(g1.n)),
                                      NumDiv(Num(1), Num(g2.n))))))
      pPair == getPFromT(t, g1.n + g2.n - 2)
  IN  [group1 |-> g1.name, group2 |-> g2.name, p |-> pPair,
       sig |-> getSignificanceStars(pPair)]

NoReport == [isNull |-> TRUE]

\* A slip the degrees-of-freedom guard could contain: < for <=.
InsufficientData_Negative(dfW) == dfW < 0

\* if (dfW <= 0) return null
InsufficientData(dfW) == dfW <= 0

\* A slip the label could contain: the two branches exchanged.
TestLabel_Exchanged(k) == IF k = 2 THEN "One-way ANOVA" ELSE "Independent T-test"

\* k === 2 ? 'Independent T-test' : 'One-way ANOVA'
TestLabel(k) == IF k = 2 THEN "Independent T-test" ELSE "One-way ANOVA"

calculateGroupStats(gs) ==
  LET k == Len(gs)
  IN  IF k < 2 THEN NoReport
      ELSE
        LET groupData == [i \in 1..k |-> GroupDatum(gs[i])]
            allValues == Concat([i \in 1..k |-> gs[i].vals])
            nTotal == Len(allValues)
            grandMean == NumDiv(Sum(allValues), Num(nTotal))
            ssb == Sum([i \in 1..k |->
                          NumMul(Num(groupData[i].n),
                                 NumSq(NumSub(groupData[i].mean, grandMean)))])
            ssw == Sum([i \in 1..k |-> groupData[i].ssq])
            dfB == k - 1
            dfW == nTotal - k
        IN  IF InsufficientData(dfW) THEN NoReport
            ELSE
              LET msb == NumDiv(ssb, Num(dfB))
                  msw == NumDiv(ssw, Num(dfW))
                  f == NumDiv(msb, msw)
                  pGlobal == getPFromT(Sqrt(f), dfW)
                  etaSq == NumDiv(ssb, NumAdd(ssb, ssw))
                  ij == PairList(1, 2, k)
                  pairwise == [m \in 1..Len(ij) |->
                                 PairwiseComparison(groupData[ij[m][1]],
                                                    groupData[ij[m][2]])]
              IN  [isNull |-> FALSE,
                   test |-> TestLabel(k),
                   f |-> f, p |-> pGlobal, etaSq |-> etaSq, groups |-> groupData,
                   dfB |-> dfB, dfW |-> dfW, pairwise |-> pairwise]

(***************************************************************************)
(* calculateSummaryStats                                                   *)
(***************************************************************************)
\* the decimal digits of a natural number
RECURSIVE NatToString(_)
NatToString(i) ==
  IF i < 10 THEN <<Digits[i + 1]>>
  ELSE NatToString(i \div 10) \o <<Digits[(i % 10) + 1]>>

\* String(v) for the cells the model draws: a string is itself, an integer its
\* decimal digits, the special numbers and the other types their names.
String(c) ==
  CASE c.t = "string" -> c.s
    [] c.t = "null" -> <<"n", "u", "l", "l">>
    [] c.t = "undefined" -> <<"u", "n", "d", "e", "f", "i", "n", "e", "d">>
    [] c.t = "boolean" -> IF c.v.n = 1 THEN <<"t", "r", "u", "e">>
                          ELSE <<"f", "a", "l", "s", "e">>
    [] OTHER ->
         IF isNaN(c.v) THEN <<"N", "a", "N">>
         ELSE IF IsInf(c.v)
              THEN (IF c.v.n < 0 THEN <<"-">> ELSE <<>>) \o InfinityText
         ELSE IF c.v.d = 1
              THEN (IF c.v.n < 0 THEN <<"-">> ELSE <<>>) \o NatToString(Abs(c.v.n))
         ELSE NatToString(Abs(c.v.n)) \o <<"/">> \o NatToString(c.v.d)

\* A slip the missing filter could contain: only null is tested.
NotMissing_NullOnly(c) == c.t # "null"

\* v !== null && v !== undefined && v !== ''
NotMissing(c) == c.t # "null" /\ c.t # "undefined" /\ c # Str(<<>>)

\* [...nums].sort((a, b) => a - b), by insertion
RECURSIVE Insert(_, _)
Insert(sorted, a) ==
  IF sorted = <<>> THEN <<a>>
  ELSE IF NumLt(a, sorted[1]) THEN <<a>> \o sorted
  ELSE <<sorted[1]>> \o Insert(Tail(sorted), a)

RECURSIVE Sort(_)
Sort(xs) == IF xs = <<>> THEN <<>>
            ELSE Insert(Sort(SubSeq(xs, 1, Len(xs) - 1)), xs[Len(xs)])

Range(f) == {f[i] : i \in DOMAIN f}

\* A slip the empty-pool return could contain: the missing count of the
\* other returns instead of values.length.
EmptyPoolStats_FilteredMissing(vals) ==
  [count |-> 0, missing |-> Len(vals) - Len(SelectSeq(vals, NotMissing)),
   unique |-> 0]

\* the return for an empty numeric pool
EmptyPoolStats(vals) == [count |-> 0, missing |-> Len(vals), unique |-> 0]

calculateSummaryStats(vals, ty) ==
  LET filtered == SelectSeq(vals, NotMissing)
      n == Len(filtered)
      missing == Len(vals) - n
      unique == Cardinality(Range(filtered))
  IN  IF ty = "categorical" \/ ty = "unknown"
      THEN
        LET keys == {String(filtered[i]) : i \in 1..n}
            freqs == [key \in keys |->
                        Cardinality({i \in 1..n : String(filtered[i]) = key})]
        IN  [count |-> n, missing |-> missing, unique |-> unique,
             frequencies |-> freqs]
      ELSE
        LET nums == SelectSeq([i \in 1..n |-> Number(filtered[i])],
                              LAMBDA v : ~isNaN(v))
        IN  IF Len(nums) = 0
            THEN EmptyPoolStats(vals)
            ELSE
              LET sorted == Sort(nums)
                  len == Len(sorted)
                  sum == Sum(nums)
                  mean == NumDiv(sum, Num(len))
                  median ==
                    IF len % 2 = 0
                    THEN NumDiv(NumAdd(sorted[len \div 2], sorted[(len \div 2) + 1]),
                                Num(2))
                    ELSE sorted[(len \div 2) + 1]
                  sqDiffs == [i \in 1..len |-> NumSq(NumSub(nums[i], mean))]
                  std == Sqrt(NumDiv(Sum(sqDiffs), Num(len)))
              IN  [count |-> n, missing |-> missing, unique |-> unique,
                   mean |-> mean, median |-> median, std |-> std,
                   min |-> sorted[1], max |-> sorted[len]]

(***************************************************************************)
(* The correlation engine applied to a row list and a list of names.       *)
(***************************************************************************)
\* Inputs are drawn up to the order of their elements where the engine only
\* sums or counts over them: nondecreasing index lists into a sequence of
\* candidate elements.
IsSorted(ms) == \A i \in 1..(Len(ms) - 1) : ms[i] <= ms[i + 1]

Names == {"a", "b"}
CorrCells == <<Null, Undefined, Str(<<>>),
               NumCell(Num(1)), NumCell(Num(2)), NumCell(Infinity)>>
\* the rows {a: CorrCells[i], b: CorrCells[j]}, numbered row-major
CorrRow(m) == [a |-> CorrCells[((m - 1) \div Len(CorrCells)) + 1],
               b |-> CorrCells[((m - 1) % Len(CorrCells)) + 1]]
\* the row list numbered ms; the model draws ms nondecreasing, which gives
\* every row list up to the order of its rows
CorrRowList(ms) == [i \in 1..Len(ms) |-> CorrRow(ms[i])]
\* The column names are distinct (Object.keys of a row); the rows range over
\* every assignment of cells to both names, so the lists starting with "b"
\* add nothing to the lists starting with "a".
VarLists == {<<>>, <<"a">>, <<"a", "b">>}

NoStats == [count |-> 0, missing |-> 0, unique |-> 0]
\* useState<Dataset | null>(null)
NoDataset == [isNull |-> TRUE]

\* the initial values of the App's other state
InitUI ==
  /\ activeTab = "overview"
  /\ loading = FALSE
  /\ selectedVarNames = {}
  /\ matrixScale = Num(1)
  /\ xVar = ""
  /\ yVar = ""
  /\ xAsCategorical = FALSE
  /\ timers = 0
  /\ tabSelected = FALSE
  /\ forced = 0

InitCorr ==
  /\ pc = "input"
  /\ \E m \in 0..MaxRows :
       \E ms \in [1..m -> 1..(Len(CorrCells) * Len(CorrCells))] :
         IsSorted(ms) /\ data = CorrRowList(ms)
  /\ vars \in VarLists
  /\ results = <<>>
  /\ groups = <<>>
  /\ report = NoReport
  /\ values = <<>>
  /\ type = "unknown"
  /\ stats = NoStats
  /\ ps = <<>>
  /\ stars = <<>>
  /\ rawRows = <<>>
  /\ dataset = NoDataset
  /\ InitUI

CorrelationMatrix ==
  /\ pc = "input"
  /\ results' = getCorrelationMatrix(data, vars)
  /\ pc' = "done"
  /\ UNCHANGED <<data, vars, groups, report, values, type, stats,
                 ps, stars, rawRows, dataset, uiVars>>

NextCorr == CorrelationMatrix
SpecCorr == InitCorr /\ [][NextCorr]_allVars

(***************************************************************************)
(* The group engine applied to a mapping of up to MaxGroups labels, each   *)
(* with up to MaxObs observations.                                         *)
(***************************************************************************)
GroupNames == <<"A", "B", "C", "D", "E", "F">>
ObsValues == <<Num(1), Num(3)>>
\* the observation array numbered ms (drawn nondecreasing: every array up to
\* the order of its values)
ObsList(ms) == [i \in 1..Len(ms) |-> ObsValues[ms[i]]]
GroupInput(mss) == [i \in 1..Len(mss) |-> [name |-> GroupNames[i], vals |-> ObsList(mss[i])]]

\* the mapping {A: [1, 2, 3], B: [10, 11, 12]}
ScenarioGroups ==
  <<[name |-> "A", vals |-> <<Num(1), Num(2), Num(3)>>],
    [name |-> "B", vals |-> <<Num(10), Num(11), Num(12)>>]>>

InitGroup ==
  /\ pc = "input"
  /\ \/ \E k \in 0..MaxGroups :
          \E mss \in [1..k -> UNION {[1..m -> 1..Len(ObsValues)] : m \in 0..MaxObs}] :
            (\A i \in 1..k : IsSorted(mss[i])) /\ groups = GroupInput(mss)
     \/ groups = ScenarioGroups
  /\ report = NoReport
  /\ data = <<>>
  /\ vars = <<>>
  /\ results = <<>>
  /\ values = <<>>
  /\ type = "unknown"
  /\ stats = NoStats
  /\ ps = <<>>
  /\ stars = <<>>
  /\ rawRows = <<>>
  /\ dataset = NoDataset
  /\ InitUI

GroupStats ==
  /\ pc = "input"
  /\ report' = calculateGroupStats(groups)
  /\ pc' = "done"
  /\ UNCHANGED <<data, vars, results, groups, values, type, stats,
                 ps, stars, rawRows, dataset, uiVars>>

NextGroup == GroupStats
SpecGroup == InitGroup /\ [][NextGroup]_allVars

\* The mappings the application builds (groupStats creates a label's array
\* when it pushes its first observation): every group non-empty.
InitGroupNonEmpty ==
  /\ InitGroup
  /\ \A i \in 1..Len(groups) : groups[i].vals # <<>>

SpecGroupNonEmpty == InitGroupNonEmpty /\ [][NextGroup]_allVars

(***************************************************************************)
(* Summary statistics applied to a values array of up to MaxValues cells   *)
(* and a declared kind.                                                    *)
(***************************************************************************)
SummaryCells == {Null, Undefined, Str(<<>>), Str(<<" ">>), Str(<<"a">>),
                 Str(<<"1">>), NumCell(Num(1)), NumCell(Num(2))}
VariableType == {"numerical", "categorical", "unknown"}

\* the column ["x", "x", "y", null, "y", "y"]
ScenarioColumn == <<Str(<<"x">>), Str(<<"x">>), Str(<<"y">>), Null,
                    Str(<<"y">>), Str(<<"y">>)>>

InitSummary ==
  /\ pc = "input"
  /\ \/ \E m \in 0..MaxValues : values \in [1..m -> SummaryCells]
     \/ values = ScenarioColumn
  /\ type \in VariableType
  /\ stats = NoStats
  /\ data = <<>>
  /\ vars = <<>>
  /\ results = <<>>
  /\ groups = <<>>
  /\ report = NoReport
  /\ ps = <<>>
  /\ stars = <<>>
  /\ rawRows = <<>>
  /\ dataset = NoDataset
  /\ InitUI

SummaryStats ==
  /\ pc = "input"
  /\ stats' = calculateSummaryStats(values, type)
  /\ pc' = "done"
  /\ UNCHANGED <<data, vars, results, groups, report, values, type,
                 ps, stars, rawRows, dataset, uiVars>>

NextSummary == SummaryStats
SpecSummary == InitSummary /\ [][NextSummary]_allVars

(***************************************************************************)
(* processRawData, in the two revisions of the upload component: the       *)
(* parsed rows of a file become the Dataset handed to onDataLoaded.  The   *)
(* rows share their keys; the file name is passed through and left out.    *)
(***************************************************************************)
\* Object.keys(rows[0]); the column names of the model, in file order
HeaderOrder == <<"a", "b", "c">>
Headers(rs) == SelectSeq(HeaderOrder, LAMBDA h : h \in DOMAIN rs[1])

\* v !== null && v !== undefined && String(v).trim() !== ''
NonBlank(c) == c.t # "null" /\ c.t # "undefined" /\ trim(String(c)) # <<>>

\* !isNaN(Number(v)) && typeof v !== 'boolean'
NumericLike(c) == ~isNaN(Number(c)) /\ c.t # "boolean"

\* (numericCount / nonNull.length) > 0.5
IsNumericMajority(numericCount, total) == 2 * numericCount > total

\* the DataVariable of column h in the revision src/unnamed/part_002
DataVariable_part_002(rs, h) ==
  LET rawValues == [i \in 1..Len(rs) |-> rs[i][h]]
      nonNull == SelectSeq(rawValues, NonBlank)
      numericCount == Len(SelectSeq(nonNull, NumericLike))
      numerical == Len(nonNull) > 0 /\ IsNumericMajority(numericCount, Len(nonNull))
      ty == IF numerical THEN "numerical" ELSE "categorical"
      processedValues ==
        IF numerical
        THEN [i \in 1..Len(rs) |->
                IF ~NonBlank(rawValues[i]) THEN Null
                ELSE IF isNaN(Number(rawValues[i])) THEN Null
                ELSE NumCell(Number(rawValues[i]))]
        ELSE rawValues
  IN  [name |-> h, type |-> ty, values |-> processedValues,
       stats |-> calculateSummaryStats(processedValues, ty)]

\* the names of the variables of one type, in column order
NamesOfType(variables, ty) ==
  LET sel == SelectSeq(variables, LAMBDA v : v.type = ty)
  IN  [i \in 1..Len(sel) |-> sel[i].name]

processRawData_part_002(rs) ==
  LET headers == Headers(rs)
      variables == [j \in 1..Len(headers) |-> DataVariable_part_002(rs, headers[j])]
      processedRows ==
        [i \in 1..Len(rs) |->
           [h \in DOMAIN rs[i] |->
              IF \E j \in 1..Len(headers) : headers[j] = h
              THEN variables[CHOOSE j \in 1..Len(headers) : headers[j] = h].values[i]
              ELSE rs[i][h]]]
  IN  [isNull |-> FALSE, data |-> processedRows, variables |-> variables,
       numericalVariables |-> NamesOfType(variables, "numerical"),
       categoricalVariables |-> NamesOfType(variables, "categorical")]

\* typeof v === 'number' || (!isNaN(Number(v)) && typeof v !== 'boolean')
IsNumericValue(c) == c.t = "number" \/ (~isNaN(Number(c)) /\ c.t # "boolean")

\* the DataVariable of column h in the revision src/components/FileUpload.tsx
DataVariable(rs, h) ==
  LET vals == [i \in 1..Len(rs) |-> rs[i][h]]
      nonNull == SelectSeq(vals, NotMissing)
      ty == IF Len(nonNull) > 0
            THEN (IF \A i \in 1..Len(nonNull) : IsNumericValue(nonNull[i])
                  THEN "numerical" ELSE "categorical")
            ELSE "unknown"
  IN  [name |-> h, type |-> ty, values |-> vals,
       stats |-> calculateSummaryStats(vals, ty)]

processRawData(rs) ==
  LET headers == Headers(rs)
      variables == [j \in 1..Len(headers) |-> DataVariable(rs, headers[j])]
  IN  [isNull |-> FALSE, data |-> rs, variables |-> variables,
       numericalVariables |-> NamesOfType(variables, "numerical"),
       categoricalVariables |-> NamesOfType(variables, "categorical")]

\* the cells of column a: absent, empty, blank, text, a number, an infinite
\* number, a boolean, the text of a number, text that starts with a digit;
\* and of column b: a number, text
LoadCellsA == <<Null, Str(<<>>), Str(<<" ">>), Str(<<"a">>), NumCell(Num(1)),
                NumCell(Infinity), Bool(TRUE), Str(<<"1">>), Str(<<"1", "a">>)>>
LoadCellsB == <<NumCell(Num(2)), Str(<<"b">>)>>
LoadRow(m) == [a |-> LoadCellsA[((m - 1) \div Len(LoadCellsB)) + 1],
               b |-> LoadCellsB[((m - 1) % Len(LoadCellsB)) + 1]]

InitLoad ==
  /\ pc = "input"
  /\ \E m \in 0..MaxRows :
       \E ms \in [1..m -> 1..(Len(LoadCellsA) * Len(LoadCellsB))] :
         rawRows = [i \in 1..m |-> LoadRow(ms[i])]
  /\ dataset = NoDataset
  /\ data = <<>>
  /\ vars = <<>>
  /\ results = <<>>
  /\ groups = <<>>
  /\ report = NoReport
  /\ values = <<>>
  /\ type = "unknown"
  /\ stats = NoStats
  /\ ps = <<>>
  /\ stars = <<>>
  /\ InitUI

\* if (rows.length === 0) return; otherwise onDataLoaded(...)
LoadRows ==
  /\ pc = "input"
  /\ dataset' = IF rawRows = <<>> THEN dataset ELSE processRawData(rawRows)
  /\ pc' = "done"
  /\ UNCHANGED <<data, vars, results, groups, report, values, type, stats,
                 ps, stars, rawRows, uiVars>>

LoadRows_part_002 ==
  /\ pc = "input"
  /\ dataset' = IF rawRows = <<>> THEN dataset ELSE processRawData_part_002(rawRows)
  /\ pc' = "done"
  /\ UNCHANGED <<data, vars, results, groups, report, values, type, stats,
                 ps, stars, rawRows, uiVars>>

NextLoad == LoadRows \/ LoadRows_part_002
SpecLoad == InitLoad /\ [][NextLoad]_allVars

(***************************************************************************)
(* getSignificanceStars applied to a pair of p-values, together with the   *)
(* two engines that annotate their records with it.                        *)
(***************************************************************************)
\* p-values below, at and above each threshold, and NaN
PGrid == {Num(0), Rat(1, 2000), Rat(1, 1000), Rat(1, 200), Rat(1, 100),
          Rat(1, 50), Rat(1, 20), Rat(1, 10), Rat(1, 2), Num(1), NaN}

InitStars ==
  /\ pc = "input"
  /\ ps \in [1..2 -> PGrid]
  /\ stars = <<>>
  /\ data = <<>>
  /\ vars = <<>>
  /\ results = <<>>
  /\ groups = <<>>
  /\ report = NoReport
  /\ values = <<>>
  /\ type = "unknown"
  /\ stats = NoStats
  /\ rawRows = <<>>
  /\ dataset = NoDataset
  /\ InitUI

SignificanceStars ==
  /\ pc = "input"
  /\ stars' = [i \in 1..Len(ps) |-> getSignificanceStars(ps[i])]
  /\ pc' = "done"
  /\ UNCHANGED <<data, vars, results, groups, report, values, type, stats,
                 ps, rawRows, dataset, uiVars>>

\* The mappings up to the order of their labels: the labels in nondecreasing
\* number of observations.
InitGroupByLength ==
  /\ InitGroup
  /\ \A i \in 1..(Len(groups) - 1) : Len(groups[i].vals) <= Len(groups[i + 1].vals)

InitSignificance == InitStars \/ InitCorr \/ InitGroupByLength
NextSignificance == SignificanceStars \/ CorrelationMatrix \/ GroupStats
SpecSignificance == InitSignificance /\ [][NextSignificance]_allVars

(***************************************************************************)
(* forceNumericalAll: the re-classification of the loaded dataset.         *)
(***************************************************************************)
RECURSIVE TrimStart(_)
TrimStart(s) == IF s # <<>> /\ s[1] \in Whitespace THEN TrimStart(Tail(s)) ELSE s

\* the longest prefix of decimal digits
RECURSIVE LeadingDigits(_)
LeadingDigits(s) ==
  IF s # <<>> /\ IsDigit(s[1]) THEN <<s[1]>> \o LeadingDigits(Tail(s)) ELSE <<>>

\* parseFloat(text) over the characters the model draws strings from: leading
\* blanks are skipped, a sign is read, then the text of an infinity or the
\* longest prefix of digits; what follows is ignored, and a text without
\* such a prefix is NaN.
parseFloat(s) ==
  LET t == TrimStart(s)
      signed == t # <<>> /\ t[1] \in {"+", "-"}
      sign == IF signed /\ t[1] = "-" THEN -1 ELSE 1
      u == IF signed THEN Tail(t) ELSE t
      ds == LeadingDigits(u)
  IN  IF Len(u) >= Len(InfinityText) /\ SubSeq(u, 1, Len(InfinityText)) = InfinityText
      THEN (IF sign < 0 THEN NegInfinity ELSE Infinity)
      ELSE IF ds = <<>> THEN NaN
      ELSE Num(sign * DigitsValue(ds))

\* !isNaN(parseFloat(String(val)))
ParsesAsNumber(c) == ~isNaN(parseFloat(String(c)))

\* isNaN(parsed) ? null : parsed
ParsedOrNull(c) ==
  LET parsed == parseFloat(String(c))
  IN  IF isNaN(parsed) THEN Null ELSE NumCell(parsed)

\* A slip the re-classification could contain: the statistics of the
\* variable's previous values instead of the coerced ones.
ForcedVariable_StatsOfPreviousValues(v) ==
  LET nonNullValues == SelectSeq(v.values, NonBlank)
      numericCount == Len(SelectSeq(nonNullValues, ParsesAsNumber))
      shouldBeNumeric == numericCount > 0 /\ 10 * numericCount > Len(nonNullValues)
      numericValues == [i \in 1..Len(v.values) |->
                          IF ~NonBlank(v.values[i]) THEN Null
                          ELSE ParsedOrNull(v.values[i])]
  IN  IF shouldBeNumeric \/ v.type = "numerical"
      THEN [name |-> v.name, type |-> "numerical", values |-> numericValues,
            stats |-> calculateSummaryStats(v.values, "numerical")]
      ELSE v

\* the variable that replaces v: numerical when more than a tenth of its
\* non-blank values parse, or when it was numerical already
ForcedVariable(v) ==
  LET nonNullValues == SelectSeq(v.values, NonBlank)
      numericCount == Len(SelectSeq(nonNullValues, ParsesAsNumber))
      shouldBeNumeric == numericCount > 0 /\ 10 * numericCount > Len(nonNullValues)
      numericValues == [i \in 1..Len(v.values) |->
                          IF ~NonBlank(v.values[i]) THEN Null
                          ELSE ParsedOrNull(v.values[i])]
  IN  IF shouldBeNumeric \/ v.type = "numerical"
      THEN [name |-> v.name, type |-> "numerical", values |-> numericValues,
            stats |-> calculateSummaryStats(numericValues, "numerical")]
      ELSE v

\* A slip the re-classification could contain: the rows are passed on as
\* they were.
forceNumericalAll_RowsKept(d) ==
  LET updatedVariables == [j \in 1..Len(d.variables) |-> ForcedVariable(d.variables[j])]
  IN  [isNull |-> FALSE, data |-> d.data, variables |-> updatedVariables,
       numericalVariables |-> NamesOfType(updatedVariables, "numerical"),
       categoricalVariables |-> NamesOfType(updatedVariables, "categorical")]

\* the dataset that setDataset receives
forceNumericalAll(d) ==
  LET updatedVariables == [j \in 1..Len(d.variables) |-> ForcedVariable(d.variables[j])]
      numericalNames == Range(NamesOfType(updatedVariables, "numerical"))
      updatedData ==
        [i \in 1..Len(d.data) |->
           [h \in DOMAIN d.data[i] |->
              LET val == d.data[i][h]
              IN  IF h \in numericalNames /\ val.t # "null" /\ val.t # "undefined"
                  THEN ParsedOrNull(val)
                  ELSE val]]
  IN  [isNull |-> FALSE, data |-> updatedData, variables |-> updatedVariables,
       numericalVariables |-> NamesOfType(updatedVariables, "numerical"),
       categoricalVariables |-> NamesOfType(updatedVariables, "categorical")]

(***************************************************************************)
(* groupStats: the groups of the focused analysis, rebuilt on every render *)
(* from the dataset and the selections.                                    *)
(***************************************************************************)
MissingText == <<"M", "i", "s", "s", "i", "n", "g">>

\* row[name]: undefined when the row lacks the name
Cell(row, name) == IF name \in DOMAIN row THEN row[name] ELSE Undefined

\* the (xVal, yVal) of the rows that pass the test of line 285, in row order
FocusedObservations(rows, x, y) ==
  SelectSeq([i \in 1..Len(rows) |->
               [xVal |-> IF Cell(rows[i], x).t \in {"null", "undefined"}
                         THEN MissingText
                         ELSE String(Cell(rows[i], x)),
                yVal |-> Number(Cell(rows[i], y))]],
            LAMBDA o : o.xVal # MissingText /\ ~isNaN(o.yVal))

\* the distinct elements in the order of their first occurrence
RECURSIVE FirstSeen(_)
FirstSeen(xs) ==
  IF xs = <<>> THEN <<>>
  ELSE LET init == FirstSeen(SubSeq(xs, 1, Len(xs) - 1))
           last == xs[Len(xs)]
       IN  IF \E i \in 1..Len(init) : init[i] = last THEN init
           ELSE Append(init, last)

\* a property key that is an array index: a canonical digit string
IsArrayIndex(key) ==
  /\ key # <<>>
  /\ \A i \in 1..Len(key) : IsDigit(key[i])
  /\ key[1] = "0" => Len(key) = 1

RECURSIVE InsertKey(_, _)
InsertKey(sorted, key) ==
  IF sorted = <<>> THEN <<key>>
  ELSE IF DigitsValue(key) < DigitsValue(sorted[1]) THEN <<key>> \o sorted
  ELSE <<sorted[1]>> \o InsertKey(Tail(sorted), key)

RECURSIVE SortKeys(_)
SortKeys(keys) ==
  IF keys = <<>> THEN <<>>
  ELSE InsertKey(SortKeys(SubSeq(keys, 1, Len(keys) - 1)), keys[Len(keys)])

\* Object.keys of an object whose keys were created in the order inserted:
\* the array indices ascending, then the other keys in creation order
ObjectKeys(inserted) ==
  SortKeys(SelectSeq(inserted, IsArrayIndex))
    \o SelectSeq(inserted, LAMBDA key : ~IsArrayIndex(key))

\* the mapping handed to calculateGroupStats, as its entries in key order
FocusedGroups(rows, x, y) ==
  LET obs == FocusedObservations(rows, x, y)
      keys == ObjectKeys(FirstSeen([i \in 1..Len(obs) |-> obs[i].xVal]))
  IN  [k \in 1..Len(keys) |->
         LET own == SelectSeq(obs, LAMBDA o : o.xVal = keys[k])
         IN  [name |-> keys[k], vals |-> [i \in 1..Len(own) |-> own[i].yVal]]]

\* if (!dataset || !xVar || !yVar || !xAsCategorical) return null
NoFocusedGroups(d, x, y, asCategorical) ==
  d.isNull \/ x = "" \/ y = "" \/ ~asCategorical

\* The render that follows a state update recomputes the memoized groupStats
\* from the new state: groups is the mapping it builds and hands to
\* calculateGroupStats.  What that call returns is a function of groups alone
\* (GroupStats above) and is not kept in the App's behaviours.
Rendered ==
  /\ groups' = IF NoFocusedGroups(dataset', xVar', yVar', xAsCategorical') THEN <<>>
               ELSE FocusedGroups(dataset'.data, xVar', yVar')
  /\ UNCHANGED report

(***************************************************************************)
(* The App component: its handlers over the state, each followed by the    *)
(* render it causes.  The upload page is shown while no dataset is loaded, *)
(* the workspace with its tabs and controls while one is.                  *)
(***************************************************************************)
MaxTimers == 2
MaxForce == 2

Tab == {"overview", "univariate", "bivariate", "focused"}

VariableNames(d) == {d.variables[j].name : j \in 1..Len(d.variables)}

\* Math.max(a, b) and Math.min(a, b)
MathMax(a, b) == IF isNaN(a) \/ isNaN(b) THEN NaN ELSE IF NumLt(a, b) THEN b ELSE a
MathMin(a, b) == IF isNaN(a) \/ isNaN(b) THEN NaN ELSE IF NumLt(b, a) THEN b ELSE a

\* A slip the zoom-out button could contain: no lower clamp.
ZoomOutScale_Unclamped(scale) == NumSub(scale, Rat(1, 10))

\* Math.max(0.4, matrixScale - 0.1)
ZoomOutScale(scale) == MathMax(Rat(2, 5), NumSub(scale, Rat(1, 10)))

\* Math.min(2.0, matrixScale + 0.1)
ZoomInScale(scale) == MathMin(Num(2), NumAdd(scale, Rat(1, 10)))

\* the files of the App behaviours: two numerical columns, one of them with
\* an empty cell (a,b / 1,2 / ,2); one text column; a column of text that
\* starts with a digit or not, beside a number
AppFiles ==
  <<(<<[a |-> NumCell(Num(1)), b |-> NumCell(Num(2))],
       [a |-> Null, b |-> NumCell(Num(2))]>>),
    (<<[c |-> Str(<<"x">>)]>>),
    (<<[a |-> Str(<<"1", "a">>), b |-> NumCell(Num(2))],
       [a |-> Str(<<"a">>), b |-> NumCell(Num(2))]>>)>>

InitApp ==
  /\ pc = "input"
  /\ dataset = NoDataset
  /\ rawRows = <<>>
  /\ data = <<>>
  /\ vars = <<>>
  /\ results = <<>>
  /\ groups = <<>>
  /\ report = NoReport
  /\ values = <<>>
  /\ type = "unknown"
  /\ stats = NoStats
  /\ ps = <<>>
  /\ stars = <<>>
  /\ InitUI

\* handleDataLoaded(data): the state updates and the timer it starts
handleDataLoaded(d) ==
  /\ loading' = TRUE
  /\ dataset' = d
  /\ selectedVarNames' =
       LET limit == IF Len(d.variables) > 50 THEN 20 ELSE Len(d.variables)
       IN  {d.variables[j].name : j \in 1..limit}
  /\ LET numericOnly == NamesOfType(d.variables, "numerical")
     IN  IF Len(numericOnly) >= 2
         THEN xVar' = numericOnly[1] /\ yVar' = numericOnly[2]
         ELSE IF Len(d.variables) >= 2
              THEN xVar' = d.variables[1].name /\ yVar' = d.variables[2].name
              ELSE UNCHANGED <<xVar, yVar>>
  /\ timers' = timers + 1
  /\ tabSelected' = FALSE
  /\ forced' = 0
  /\ UNCHANGED <<activeTab, matrixScale, xAsCategorical>>

\* a file is chosen on the upload page and its rows are processed by the
\* upload component of src/components/FileUpload.tsx
UploadFile ==
  /\ dataset.isNull
  /\ timers < MaxTimers
  /\ \E f \in 1..Len(AppFiles) :
       /\ rawRows' = AppFiles[f]
       /\ \E d \in {processRawData(AppFiles[f])} : handleDataLoaded(d)
  /\ pc' = "done"
  /\ Rendered
  /\ UNCHANGED <<data, vars, results, values, type, stats, ps, stars>>

\* the same with the upload component of src/unnamed/part_002
UploadFile_part_002 ==
  /\ dataset.isNull
  /\ timers < MaxTimers
  /\ \E f \in 1..Len(AppFiles) :
       /\ rawRows' = AppFiles[f]
       /\ \E d \in {processRawData_part_002(AppFiles[f])} : handleDataLoaded(d)
  /\ pc' = "done"
  /\ Rendered
  /\ UNCHANGED <<data, vars, results, values, type, stats, ps, stars>>

\* the callback of setTimeout(..., 500)
TimerFires ==
  /\ timers > 0
  /\ loading' = FALSE
  /\ activeTab' = "overview"
  /\ timers' = timers - 1
  /\ UNCHANGED <<pc, data, vars, results, values, type, stats, ps, stars,
                 rawRows, dataset, selectedVarNames, matrixScale, xVar, yVar,
                 xAsCategorical, tabSelected, forced>>
  /\ Rendered

\* a click on one of the four tab buttons of the workspace
SelectTab ==
  /\ ~dataset.isNull
  /\ \E tab \in Tab : activeTab' = tab
  /\ tabSelected' = TRUE
  /\ UNCHANGED <<pc, data, vars, results, values, type, stats, ps, stars,
                 rawRows, dataset, loading, selectedVarNames, matrixScale,
                 xVar, yVar, xAsCategorical, timers, forced>>
  /\ Rendered

reset ==
  /\ ~dataset.isNull
  /\ dataset' = NoDataset
  /\ activeTab' = "overview"
  /\ xAsCategorical' = FALSE
  /\ selectedVarNames' = {}
  /\ matrixScale' = Num(1)
  /\ pc' = "input"
  /\ tabSelected' = FALSE
  /\ forced' = 0
  /\ UNCHANGED <<data, vars, results, values, type, stats, ps, stars,
                 rawRows, loading, xVar, yVar, timers>>
  /\ Rendered

\* forceNumericalAll: if (!dataset) return; the two setLoading calls and
\* setDataset are applied together
ForceNumericalAll ==
  /\ ~dataset.isNull
  /\ forced < MaxForce
  /\ dataset' = forceNumericalAll(dataset)
  /\ loading' = FALSE
  /\ forced' = forced + 1
  /\ UNCHANGED <<pc, data, vars, results, values, type, stats, ps, stars,
                 rawRows, activeTab, selectedVarNames, matrixScale, xVar, yVar,
                 xAsCategorical, timers, tabSelected>>
  /\ Rendered

\* toggleVariable(name), from the button of a variable of the dataset
toggleVariable ==
  /\ ~dataset.isNull
  /\ \E name \in VariableNames(dataset) :
       selectedVarNames' = IF name \in selectedVarNames
                           THEN selectedVarNames \ {name}
                           ELSE selectedVarNames \cup {name}
  /\ UNCHANGED <<pc, data, vars, results, values, type, stats, ps, stars,
                 rawRows, dataset, activeTab, loading, matrixScale, xVar, yVar,
                 xAsCategorical, timers, tabSelected, forced>>
  /\ Rendered

selectAll ==
  /\ ~dataset.isNull
  /\ selectedVarNames' = VariableNames(dataset)
  /\ UNCHANGED <<pc, data, vars, results, values, type, stats, ps, stars,
                 rawRows, dataset, activeTab, loading, matrixScale, xVar, yVar,
                 xAsCategorical, timers, tabSelected, forced>>
  /\ Rendered

deselectAll ==
  /\ ~dataset.isNull
  /\ selectedVarNames' = {}
  /\ UNCHANGED <<pc, data, vars, results, values, type, stats, ps, stars,
                 rawRows, dataset, activeTab, loading, matrixScale, xVar, yVar,
                 xAsCategorical, timers, tabSelected, forced>>
  /\ Rendered

\* the predictor select of the focused tab: its options are the selected
\* variables of the dataset
SetXVar ==
  /\ ~dataset.isNull
  /\ activeTab = "focused"
  /\ \E name \in VariableNames(dataset) \cap selectedVarNames : xVar' = name
  /\ UNCHANGED <<pc, data, vars, results, values, type, stats, ps, stars,
                 rawRows, dataset, activeTab, loading, selectedVarNames,
                 matrixScale, yVar, xAsCategorical, timers, tabSelected, forced>>
  /\ Rendered

\* the outcome select: its options are the selected numerical variables
SetYVar ==
  /\ ~dataset.isNull
  /\ activeTab = "focused"
  /\ \E name \in Range(dataset.numericalVariables) \cap selectedVarNames :
       yVar' = name
  /\ UNCHANGED <<pc, data, vars, results, values, type, stats, ps, stars,
                 rawRows, dataset, activeTab, loading, selectedVarNames,
                 matrixScale, xVar, xAsCategorical, timers, tabSelected, forced>>
  /\ Rendered

\* setXAsCategorical(!xAsCategorical), on the focused tab
ToggleXAsCategorical ==
  /\ ~dataset.isNull
  /\ activeTab = "focused"
  /\ xAsCategorical' = ~xAsCategorical
  /\ UNCHANGED <<pc, data, vars, results, values, type, stats, ps, stars,
                 rawRows, dataset, activeTab, loading, selectedVarNames,
                 matrixScale, xVar, yVar, timers, tabSelected, forced>>
  /\ Rendered

\* the zoom buttons are shown on the bivariate tab with at least two
\* selected numerical variables
ZoomShown ==
  /\ ~dataset.isNull
  /\ activeTab = "bivariate"
  /\ Cardinality({j \in 1..Len(dataset.variables) :
                    /\ dataset.variables[j].name \in selectedVarNames
                    /\ dataset.variables[j].type = "numerical"}) >= 2

ZoomOut ==
  /\ ZoomShown
  /\ matrixScale' = ZoomOutScale(matrixScale)
  /\ UNCHANGED <<pc, data, vars, results, values, type, stats, ps, stars,
                 rawRows, dataset, activeTab, loading, selectedVarNames,
                 xVar, yVar, xAsCategorical, timers, tabSelected, forced>>
  /\ Rendered

ZoomIn ==
  /\ ZoomShown
  /\ matrixScale' = ZoomInScale(matrixScale)
  /\ UNCHANGED <<pc, data, vars, results, values, type, stats, ps, stars,
                 rawRows, dataset, activeTab, loading, selectedVarNames,
                 xVar, yVar, xAsCategorical, timers, tabSelected, forced>>
  /\ Rendered

NextApp ==
  \/ UploadFile
  \/ UploadFile_part_002
  \/ TimerFires
  \/ SelectTab
  \/ reset
  \/ ForceNumericalAll
  \/ toggleVariable
  \/ selectAll
  \/ deselectAll
  \/ SetXVar
  \/ SetYVar
  \/ ToggleXAsCategorical
  \/ ZoomOut
  \/ ZoomIn

SpecApp == InitApp /\ [][NextApp]_allVars

(***************************************************************************)
(* Loading a file and re-classifying its variables, over the files of      *)
(* InitLoad.                                                               *)
(***************************************************************************)
\* The loaders and the re-classification treat the rows alike, so the files
\* are drawn up to the order of their rows.
InitForce ==
  /\ pc = "input"
  /\ \E m \in 0..MaxRows :
       \E ms \in [1..m -> 1..(Len(LoadCellsA) * Len(LoadCellsB))] :
         IsSorted(ms) /\ rawRows = [i \in 1..m |-> LoadRow(ms[i])]
  /\ dataset = NoDataset
  /\ data = <<>>
  /\ vars = <<>>
  /\ results = <<>>
  /\ groups = <<>>
  /\ report = NoReport
  /\ values = <<>>
  /\ type = "unknown"
  /\ stats = NoStats
  /\ ps = <<>>
  /\ stars = <<>>
  /\ InitUI

NextForce == LoadRows \/ LoadRows_part_002 \/ ForceNumericalAll
SpecForce == InitForce /\ [][NextForce]_allVars

\* the same with the upload component of src/unnamed/part_002 only
NextForce_part_002 == LoadRows_part_002 \/ ForceNumericalAll
SpecForce_part_002 == InitForce /\ [][NextForce_part_002]_allVars

(***************************************************************************)
(* Properties.                                                             *)
(***************************************************************************)
\* a number in [0, 1], not NaN
InUnit(p) == ~isNaN(p) /\ NumLe(Num(0), p) /\ NumLe(p, Num(1))

\* The specification's notion of a present value: not null, undefined or the
\* empty string, and coercing to a finite number.
PresentFinite(c) == c.t # "null" /\ c.t # "undefined" /\ c # Str(<<>>)
                    /\ isFinite(Number(c))

\* The specification's notion of a missing value: the absence marker, or a
\* text form that trims to the empty string.
TrimmedMissing(c) == c.t = "null" \/ c.t = "undefined" \/ trim(String(c)) = <<>>

\* C1: for every pair (x, y) the reported n is the number of rows in which
\* both row[x] and row[y] are non-missing and coerce to a finite number; a
\* row with x or y null, undefined or '' is not counted for that pair.
C1_PairwiseCompleteCount ==
  pc = "done" =>
    \A idx \in 1..Len(results) :
      results[idx].n =
        Cardinality({k \in 1..Len(data) :
                       /\ PresentFinite(data[k][results[idx].x])
                       /\ PresentFinite(data[k][results[idx].y])})

\* C2: every p-value the engine returns is a number in [0, 1] and never NaN:
\* the p of every correlation record, the global p of every group report and
\* the p of each of its pairwise comparisons.
C2_PValuesInUnitInterval ==
  pc = "done" =>
    /\ \A idx \in 1..Len(results) : InUnit(results[idx].p)
    /\ ~report.isNull =>
         /\ InUnit(report.p)
         /\ \A m \in 1..Len(report.pairwise) : InUnit(report.pairwise[m].p)

\* C3: calculateGroupStats returns no report whenever fewer than 2 of the
\* supplied groups are non-empty.
C3_NoReportBelowTwoNonEmptyGroups ==
  pc = "done" /\ Cardinality({i \in 1..Len(groups) : groups[i].vals # <<>>}) < 2
    => report.isNull

\* C4: every returned report has etaSq defined and within [0, 1], also when
\* all observations are equal.
C4_EtaSqInUnitInterval ==
  pc = "done" /\ ~report.isNull => InUnit(report.etaSq)

\* C5: for every values array and every declared kind the returned record
\* has count + missing = values.length, the empty numeric pool included.
C5_CountPlusMissingIsLength ==
  pc = "done" => stats.count + stats.missing = Len(values)

\* C5 witness: a numerical column with present values none of which is
\* numeric (the empty numeric pool) has been summarized.
C5_Witness ==
  /\ pc = "done"
  /\ type = "numerical"
  /\ "mean" \notin DOMAIN stats
  /\ \E i \in 1..Len(values) : NotMissing(values[i])
  /\ \E i \in 1..Len(values) : ~NotMissing(values[i])

\* C6: a value is counted as missing exactly when it is null/undefined or its
\* text form trims to the empty string; a whitespace-only string is in
\* missing and not in count (stated for the records computed over the
\* filtered values: the frequency record and the full numeric record).
C6_MissingIsTrimmedEmpty ==
  pc = "done" /\ ("frequencies" \in DOMAIN stats \/ "mean" \in DOMAIN stats) =>
    /\ stats.missing = Cardinality({i \in 1..Len(values) : TrimmedMissing(values[i])})
    /\ stats.count = Cardinality({i \in 1..Len(values) : ~TrimmedMissing(values[i])})

\* C7: the matrix is symmetric: the records for (x, y) and (y, x) carry the
\* same r (the same number, or NaN in both) and the same n.
C7_MatrixSymmetric ==
  pc = "done" =>
    \A i, j \in 1..Len(results) :
      results[i].x = results[j].y /\ results[i].y = results[j].x =>
        results[i].r = results[j].r /\ results[i].n = results[j].n

\* C7 witness: a matrix over two names whose off-diagonal pair has three
\* complete rows and a correlation strictly between 0 and 1 in magnitude.
C7_Witness ==
  /\ pc = "done"
  /\ \E i \in 1..Len(results) :
       /\ results[i].x # results[i].y
       /\ results[i].n = 3
       /\ ~SurdIsNaN(results[i].r)
       /\ NumLt(Num(0), results[i].r.sq)
       /\ NumLt(results[i].r.sq, Num(1))

\* C8: exactly one record for every ordered pair of names in vars, self-pairs
\* and both directions included: |vars|^2 records, also for no rows.
C8_OneRecordPerOrderedPair ==
  pc = "done" =>
    /\ Len(results) = Len(vars) * Len(vars)
    /\ \A i, j \in 1..Len(vars) :
         Cardinality({idx \in 1..Len(results) :
                        results[idx].x = vars[i] /\ results[idx].y = vars[j]}) = 1

\* C8 witness: the matrix of two names over the empty row list has 4 records.
C8_Witness ==
  pc = "done" /\ data = <<>> /\ Len(vars) = 2 /\ Len(results) = 4

\* C9: for every variable x with at least two distinct finite present values
\* the self-pair record (x, x) has r = 1.
C9_SelfCorrelationIsOne ==
  pc = "done" =>
    \A idx \in 1..Len(results) :
      /\ results[idx].x = results[idx].y
      /\ Cardinality({Number(data[k][results[idx].x]) :
                        k \in {m \in 1..Len(data) :
                                 PresentFinite(data[m][results[idx].x])}}) >= 2
      => results[idx].r = SurdOf(Num(1))

\* C10: for every computed pair r is not NaN and lies in [-1, 1].
C10_PearsonInRange ==
  pc = "done" =>
    \A idx \in 1..Len(results) :
      ~SurdIsNaN(results[idx].r) /\ NumLe(results[idx].r.sq, Num(1))

\* the number of observations of a mapping
TotalObs(gs) == Len(Concat([i \in 1..Len(gs) |-> gs[i].vals]))

\* C11: with k the number of labels and N the number of observations, no
\* report is returned whenever N - k <= 0, and every returned report has
\* dfB = k - 1 >= 1 and dfW = N - k > 0.
C11_ReportNeedsPositiveDfWithin ==
  pc = "done" =>
    /\ TotalObs(groups) - Len(groups) <= 0 => report.isNull
    /\ ~report.isNull =>
         /\ report.dfB = Len(groups) - 1 /\ report.dfB >= 1
         /\ report.dfW = TotalObs(groups) - Len(groups) /\ report.dfW > 0

\* C11 witness: a report over three labels with exactly one degree of
\* freedom within has been returned.
C11_Witness ==
  pc = "done" /\ ~report.isNull /\ Len(groups) = 3 /\ report.dfW = 1

\* C12: in every returned report, a pairwise comparison of two groups that
\* both have a single observation has p = 1 and sig = "".
C12_SingletonPairIsNeutral ==
  pc = "done" /\ ~report.isNull =>
    \A m \in 1..Len(report.pairwise) :
      (\A i \in 1..Len(groups) :
         groups[i].name \in {report.pairwise[m].group1, report.pairwise[m].group2}
           => Len(groups[i].vals) = 1)
      => report.pairwise[m].p = Num(1) /\ report.pairwise[m].sig = ""

\* C12 witness: a returned report holding a comparison of two single-
\* observation groups with different values.
C12_Witness ==
  /\ pc = "done" /\ ~report.isNull
  /\ \E i, j \in 1..Len(groups) :
       /\ i < j
       /\ Len(groups[i].vals) = 1 /\ Len(groups[j].vals) = 1
       /\ groups[i].vals # groups[j].vals
       /\ \E m \in 1..Len(report.pairwise) :
            /\ report.pairwise[m].group1 = groups[i].name
            /\ report.pairwise[m].group2 = groups[j].name

\* C13: every returned report for k labels has exactly one comparison per
\* unordered pair of distinct labels: k(k-1)/2 entries, none pairing a label
\* with itself, no pair listed twice in either order.
C13_OneComparisonPerUnorderedPair ==
  pc = "done" /\ ~report.isNull =>
    LET k == Len(groups)
        pw == report.pairwise
    IN  /\ 2 * Len(pw) = k * (k - 1)
        /\ \A m \in 1..Len(pw) : pw[m].group1 # pw[m].group2
        /\ \A i, j \in 1..k :
             i < j =>
               Cardinality({m \in 1..Len(pw) :
                              {pw[m].group1, pw[m].group2}
                                = {groups[i].name, groups[j].name}}) = 1

\* C13 witness: a returned report over three labels, with three comparisons.
C13_Witness ==
  pc = "done" /\ ~report.isNull /\ Len(groups) = 3 /\ Len(report.pairwise) = 3

\* C14: a returned report is labelled "Independent T-test" for exactly 2
\* labels and "One-way ANOVA" for 3 or more; for {A: [1, 2, 3],
\* B: [10, 11, 12]} a report is returned, an Independent T-test with dfB = 1
\* and dfW = 4.
C14_TestLabelByGroupCount ==
  pc = "done" =>
    /\ ~report.isNull /\ Len(groups) = 2 => report.test = "Independent T-test"
    /\ ~report.isNull /\ Len(groups) >= 3 => report.test = "One-way ANOVA"
    /\ groups = ScenarioGroups =>
         /\ ~report.isNull
         /\ report.test = "Independent T-test"
         /\ report.dfB = 1 /\ report.dfW = 4

\* C14 witness: the report for {A: [1, 2, 3], B: [10, 11, 12]} has been
\* returned.
C14_Witness ==
  pc = "done" /\ groups = ScenarioGroups /\ ~report.isNull
\* the number of stars of a significance string
StarCount(sig) == CASE sig = "***" -> 3 [] sig = "**" -> 2 [] sig = "*" -> 1
                    [] OTHER -> 0

\* C15: getSignificanceStars gives "***" for p < 0.001, "**" for
\* 0.001 <= p < 0.01, "*" for 0.01 <= p < 0.05 and "" for p >= 0.05, so a
\* larger p never has more stars; the significance of every correlation
\* record and the sig of every pairwise comparison is getSignificanceStars
\* of the record's own p.
C15_StarsByThreshold ==
  pc = "done" =>
    /\ \A i \in 1..Len(stars) :
         ~isNaN(ps[i]) =>
           stars[i] = (IF NumLt(ps[i], Rat(1, 1000)) THEN "***"
                       ELSE IF NumLt(ps[i], Rat(1, 100)) THEN "**"
                       ELSE IF NumLt(ps[i], Rat(1, 20)) THEN "*"
                       ELSE "")
    /\ \A i, j \in 1..Len(stars) :
         NumLe(ps[i], ps[j]) => StarCount(stars[j]) <= StarCount(stars[i])
    /\ \A idx \in 1..Len(results) :
         results[idx].significance = getSignificanceStars(results[idx].p)
    /\ ~report.isNull =>
         \A m \in 1..Len(report.pairwise) :
           report.pairwise[m].sig = getSignificanceStars(report.pairwise[m].p)

\* C15 witness: the function has been applied to p = 0.01 and p = 0.05, the
\* two thresholds at which the number of stars drops to one and to none.
C15_Witness ==
  /\ pc = "done"
  /\ ps = <<Rat(1, 100), Rat(1, 20)>>
  /\ stars = <<"*", "">>
\* the sum of the counts of a frequency table
RECURSIVE FreqTotal(_)
FreqTotal(f) ==
  IF DOMAIN f = {} THEN 0
  ELSE LET key == CHOOSE x \in DOMAIN f : TRUE
       IN  f[key] + FreqTotal([x \in DOMAIN f \ {key} |-> f[x]])

\* C16: for a categorical or unknown column, frequencies counts each
\* non-missing value under its string form, the counts sum to count, and
\* unique is the number of distinct keys of frequencies; for
\* ["x", "x", "y", null, "y", "y"] the record is count = 5, missing = 1,
\* unique = 2, frequencies = {x: 2, y: 3}.
C16_FrequenciesByStringForm ==
  pc = "done" /\ type \in {"categorical", "unknown"} =>
    /\ "frequencies" \in DOMAIN stats
    /\ DOMAIN stats.frequencies =
         {String(values[i]) : i \in {j \in 1..Len(values) : ~TrimmedMissing(values[j])}}
    /\ \A key \in DOMAIN stats.frequencies :
         stats.frequencies[key] =
           Cardinality({i \in 1..Len(values) :
                          ~TrimmedMissing(values[i]) /\ String(values[i]) = key})
    /\ FreqTotal(stats.frequencies) = stats.count
    /\ stats.unique = Cardinality(DOMAIN stats.frequencies)
    /\ values = ScenarioColumn =>
         /\ stats.count = 5 /\ stats.missing = 1 /\ stats.unique = 2
         /\ stats.frequencies = (<<"x">> :> 2) @@ (<<"y">> :> 3)
\* The specification's numeric pool of a column: the numbers of the values
\* that are not missing and coerce to a number.
NumericPool(vals) ==
  LET kept == SelectSeq(vals, LAMBDA c : ~TrimmedMissing(c) /\ ~isNaN(Number(c)))
  IN  [i \in 1..Len(kept) |-> Number(kept[i])]

\* C17: for a numerical column, a value that is not missing but fails
\* numeric coercion is left out of the pool of mean, median, std, min and
\* max and is not counted in missing: missing is the number of absent or
\* empty values only.
C17_NonNumericNotCountedMissing ==
  pc = "done" /\ type = "numerical" =>
    /\ stats.missing = Cardinality({i \in 1..Len(values) : TrimmedMissing(values[i])})
    /\ "mean" \in DOMAIN stats =>
         LET pool == NumericPool(values)
             sorted == Sort(pool)
         IN  /\ pool # <<>>
             /\ stats.mean = NumDiv(Sum(pool), Num(Len(pool)))
             /\ stats.min = sorted[1]
             /\ stats.max = sorted[Len(sorted)]

\* C18: for a numerical column in which no value coerces to a number (every
\* value missing or non-numeric, the empty array included) the record is
\* count = 0, missing = values.length, unique = 0, with no mean, median, std,
\* min or max.
C18_EmptyPoolRecord ==
  pc = "done" /\ type = "numerical" /\ NumericPool(values) = <<>> =>
    stats = [count |-> 0, missing |-> Len(values), unique |-> 0]
\* the loaded column of a variable, as parsed
RawColumn(name) == [i \in 1..Len(rawRows) |-> rawRows[i][name]]

\* The specification's numeric-like value: converting it to a number yields
\* a finite result and it is not a boolean.
FiniteNumericLike(c) == isFinite(Number(c)) /\ c.t # "boolean"

\* C19: on load a column is numerical if and only if more than half of its
\* non-missing values are numeric-like (finite after conversion, not a
\* boolean); every other column with a non-missing value is categorical.
C19_NumericalIffMajorityNumericLike ==
  pc = "done" /\ ~dataset.isNull =>
    \A j \in 1..Len(dataset.variables) :
      LET v == dataset.variables[j]
          present == SelectSeq(RawColumn(v.name), LAMBDA c : ~TrimmedMissing(c))
          numericLike == SelectSeq(present, FiniteNumericLike)
          majority == Len(present) > 0 /\ 2 * Len(numericLike) > Len(present)
      IN  /\ v.type = "numerical" <=> majority
          /\ Len(present) > 0 /\ ~majority => v.type = "categorical"

\* C20: on load a column with no non-missing value is categorical, and its
\* name is among the dataset's categorical variables.
C20_AllMissingIsCategorical ==
  pc = "done" /\ ~dataset.isNull =>
    \A j \in 1..Len(dataset.variables) :
      LET v == dataset.variables[j]
      IN  (\A i \in 1..Len(rawRows) : TrimmedMissing(rawRows[i][v.name])) =>
            /\ v.type = "categorical"
            /\ \E m \in 1..Len(dataset.categoricalVariables) :
                 dataset.categoricalVariables[m] = v.name

\* C23: getCorrelationMatrix rejects ragged rows: when a row lacks one of the
\* requested names (reading it yields undefined) the call returns no matrix.
C23_RaggedRowsRejected ==
  pc = "done" /\ (\E i \in 1..Len(data), j \in 1..Len(vars) :
                    data[i][vars[j]] = Undefined) =>
    results = <<>>

\* not null, undefined or the empty string
NotAbsent(c) == c.t # "null" /\ c.t # "undefined" /\ c # Str(<<>>)

\* the values over which mean, median, std, min and max are computed
PoolOfMean(vals) ==
  SelectSeq(vals, LAMBDA c : NotAbsent(c) /\ ~isNaN(Number(c)))

\* C29 as claimed: for a numerical column with a non-empty numeric pool,
\* count is the number of values over which mean, median, std, min and max
\* were computed.
C29_CountIsPoolSize ==
  pc = "done" /\ type = "numerical" /\ "mean" \in DOMAIN stats =>
    stats.count = Len(PoolOfMean(values))

\* C29 amended: for a numerical column with a non-empty numeric pool, count
\* is the number of values that are not null, undefined or the empty string;
\* the pool of mean, median, std, min and max is never larger, and is
\* smaller exactly when one of those values fails numeric coercion.
C29_CountIsNonMissing ==
  pc = "done" /\ type = "numerical" /\ "mean" \in DOMAIN stats =>
    /\ stats.count = Len(SelectSeq(values, NotAbsent))
    /\ Len(PoolOfMean(values)) <= stats.count
    /\ Len(PoolOfMean(values)) < stats.count <=>
         \E i \in 1..Len(values) :
           NotAbsent(values[i]) /\ isNaN(Number(values[i]))

C29_Witness ==
  /\ pc = "done"
  /\ type = "numerical"
  /\ values = <<Str(<<"a">>), NumCell(Num(1))>>
  /\ stats.count = 2
  /\ stats.mean = Num(1)

\* C21: forceNumericalAll is idempotent: applied to a dataset that was forced
\* already, it leaves the variable types, the coerced values, the row data
\* and the statistics of every variable as they are.
C21_ForceIsIdempotent ==
  [][forced >= 1 /\ forced' = forced + 1 => dataset' = dataset]_allVars

C21_Witness ==
  /\ forced = 2
  /\ RawColumn("a") = <<Str(<<"a">>), NumCell(Num(1))>>
  /\ dataset.variables[1].type = "numerical"
  /\ dataset.variables[1].values = <<Null, NumCell(Num(1))>>
  /\ dataset.variables[1].stats.count = 1

\* the rows of the focused analysis whose predictor is present and whose
\* outcome is a number that is not missing
RowsWithOutcome ==
  {i \in 1..Len(dataset.data) :
     /\ Cell(dataset.data[i], xVar).t \notin {"null", "undefined"}
     /\ ~TrimmedMissing(Cell(dataset.data[i], yVar))
     /\ ~isNaN(Number(Cell(dataset.data[i], yVar)))}

\* C24: in the focused group analysis the observations of the groups handed
\* to calculateGroupStats are those of the rows whose outcome is a
\* non-missing number, one each: a row whose outcome is null or an empty
\* string contributes none.
C24_GroupsUseNonMissingOutcomes ==
  ~NoFocusedGroups(dataset, xVar, yVar, xAsCategorical) =>
    TotalObs(groups) = Cardinality(RowsWithOutcome)

\* C25: while a dataset is loaded, xVar and yVar are each empty or the name
\* of one of its variables.
C25_SelectionsNameCurrentVariables ==
  ~dataset.isNull =>
    /\ xVar \in {""} \cup VariableNames(dataset)
    /\ yVar \in {""} \cup VariableNames(dataset)

\* C26: once the user has selected a tab after a load, a timer callback of
\* handleDataLoaded does not change activeTab.
C26_TimerKeepsSelectedTab ==
  [][tabSelected /\ timers' < timers => activeTab' = activeTab]_allVars

NameCount(names, name) == Cardinality({m \in 1..Len(names) : names[m] = name})

\* C27: after a load and any number of forceNumericalAll calls every
\* variable name is in exactly one of numericalVariables and
\* categoricalVariables, in numericalVariables exactly when the variable's
\* type is numerical; and forceNumericalAll leaves a numerical variable
\* numerical.
C27_ListsPartitionVariables ==
  /\ [](~dataset.isNull =>
          \A j \in 1..Len(dataset.variables) :
            LET v == dataset.variables[j]
                inNum == NameCount(dataset.numericalVariables, v.name)
                inCat == NameCount(dataset.categoricalVariables, v.name)
            IN  /\ inNum + inCat = 1
                /\ inNum = 1 <=> v.type = "numerical")
  /\ [][forced' = forced + 1 =>
          \A j \in 1..Len(dataset.variables) :
            dataset.variables[j].type = "numerical" =>
              dataset'.variables[j].type = "numerical"]_allVars

\* a number that is not NaN
IsNumberCell(c) == c.t = "number" /\ ~isNaN(c.v)

\* C28: after a load and any number of forceNumericalAll calls the rows and
\* the variables agree: for every variable v and row i, data[i][v.name] and
\* v.values[i] are the same value or both missing, and every value of a
\* numerical variable is a number or missing.
C28_RowsAgreeWithValues ==
  ~dataset.isNull =>
    \A j \in 1..Len(dataset.variables) :
      LET v == dataset.variables[j]
      IN  /\ Len(v.values) = Len(dataset.data)
          /\ \A i \in 1..Len(dataset.data) :
               LET inRow == Cell(dataset.data[i], v.name)
                   inVar == v.values[i]
               IN  /\ inRow = inVar \/ (TrimmedMissing(inRow) /\ TrimmedMissing(inVar))
                   /\ v.type = "numerical" =>
                        IsNumberCell(inVar) \/ TrimmedMissing(inVar)

C28_Witness ==
  /\ forced >= 1
  /\ RawColumn("a") = <<Str(<<" ">>), Str(<<"a">>), NumCell(Num(1))>>
  /\ dataset.variables[1].type = "numerical"
  /\ dataset.variables[1].values = <<Null, Null, NumCell(Num(1))>>
  /\ \A i \in 1..3 : dataset.data[i].a = dataset.variables[1].values[i]

ScaleInRange(scale) == NumLe(Rat(2, 5), scale) /\ NumLe(scale, Num(2))

\* C30: matrixScale stays within [0.4, 2.0], a zoom step changing it by 0.1
\* at most; reset returns it to 1 and leaves an empty variable selection,
\* xAsCategorical = false and activeTab = overview.
C30_ScaleClampedResetRestores ==
  /\ [] ScaleInRange(matrixScale)
  /\ [][/\ (~dataset.isNull /\ dataset'.isNull) =>
             /\ matrixScale' = Num(1)
             /\ selectedVarNames' = {}
             /\ xAsCategorical' = FALSE
             /\ activeTab' = "overview"
        /\ (~dataset.isNull /\ ~dataset'.isNull) =>
             NumLe(NumAbs(NumSub(matrixScale', matrixScale)), Rat(1, 10))]_allVars

C30_Witness ==
  /\ matrixScale = Rat(2, 5)
  /\ activeTab = "bivariate"
  /\ selectedVarNames = {"a", "b"}

====
